---- MODULE Spec2Model ----
(***************************************************************************)
(* A model of the SGF parser (src/src/parser.rs), of the tree it builds    *)
(* and its writer (src/src/sgf_node.rs), of the text codec and of the      *)
(* accessors of a node.                                                    *)
(*                                                                         *)
(* A character is a one-character string and a str is a sequence of        *)
(* characters.  Every character of the model is one byte long, so a byte   *)
(* offset `pos` of the code (0-based) names the character input[pos + 1].  *)
(***************************************************************************)
EXTENDS Integers, Sequences, FiniteSets, TLC

VARIABLES input, pc, result, output, text, decoded, call, reparsed

vars == <<input, pc, result, output, text, decoded, call, reparsed>>

----------------------------------------------------------------------------
(* Character classes of the grammar.                                       *)

\* ' ' | '\t' | '\r' | '\n' | 'v'
\* A variant of WsClass without the letter v.
WsClass_ascii == {" ", "\t", "\r", "\n"}

WsClass == {" ", "\t", "\r", "\n", "v"}

\* 'A' ... 'Z'
Upper ==
    {"A", "B", "C", "D", "E", "F", "G", "H", "I", "J", "K", "L", "M",
     "N", "O", "P", "Q", "R", "S", "T", "U", "V", "W", "X", "Y", "Z"}

\* The bytes of a literal m handed to slice_eq ("(", ")", ";", "[", "]", "\\]").
Bytes(m) == IF m = "\\]" THEN <<"\\", "]">> ELSE <<m>>

----------------------------------------------------------------------------
(* RuleResult, ParseState and the scanner primitives.                      *)

Matched(pos, value, state) ==
    [matched |-> TRUE, pos |-> pos, value |-> value, state |-> state]

Failed(state) ==
    [matched |-> FALSE, pos |-> 0, value |-> <<>>, state |-> state]

\* The field calls is a history of the program, not a field of ParseState:
\* the calls of mark_failure that recorded something, in order, each with
\* max_err_pos as the call left it.
ParseState_new ==
    [max_err_pos |-> 0, suppress_fail |-> 0, expected |-> {}, calls |-> <<>>]

logged(state, pos, expected) ==
    [state EXCEPT !.calls = Append(@, [pos |-> pos, expected |-> expected,
                                       max_err_pos |-> state.max_err_pos])]

\* A variant of mark_failure that does not clear expected when the position
\* advances.
mark_failure_keep_expected(state, pos, expected) ==
    IF state.suppress_fail = 0
    THEN logged(IF pos >= state.max_err_pos
                THEN [state EXCEPT !.max_err_pos = pos,
                                   !.expected = @ \cup {expected}]
                ELSE state,
                pos, expected)
    ELSE state

\* ParseState::mark_failure: the state after the failure is recorded.
mark_failure(state, pos, expected) ==
    IF state.suppress_fail = 0
    THEN LET s1 == IF pos > state.max_err_pos
                   THEN [state EXCEPT !.max_err_pos = pos, !.expected = {}]
                   ELSE state
         IN  logged(IF pos = s1.max_err_pos
                    THEN [s1 EXCEPT !.expected = @ \cup {expected}]
                    ELSE s1,
                    pos, expected)
    ELSE state

slice_eq(inp, state, pos, m) ==
    LET l == Len(Bytes(m))
    IN  IF Len(inp) >= pos + l /\ SubSeq(inp, pos + 1, pos + l) = Bytes(m)
        THEN Matched(pos + l, <<>>, state)
        ELSE Failed(mark_failure(state, pos, m))

\* pos_to_line: (line, column) of byte offset pos.
RECURSIVE CountLF(_)
CountLF(s) ==
    IF s = <<>> THEN 0
    ELSE (IF Head(s) = "\n" THEN 1 ELSE 0) + CountLF(Tail(s))

RECURSIVE TakeWhileNotLF(_)
TakeWhileNotLF(s) ==
    IF s = <<>> \/ s[Len(s)] = "\n" THEN 0
    ELSE 1 + TakeWhileNotLF(SubSeq(s, 1, Len(s) - 1))

pos_to_line(inp, pos) ==
    LET before == SubSeq(inp, 1, pos)
    IN  <<CountLF(before) + 1, TakeWhileNotLF(before) + 1>>

\* The inlined loop [ \t\r\nv]*: it always matches, and records the failure
\* of the class at the position where it stops.
RECURSIVE ws_repeat(_, _, _)
ws_repeat(inp, state, pos) ==
    IF Len(inp) > pos /\ inp[pos + 1] \in WsClass
    THEN ws_repeat(inp, state, pos + 1)
    ELSE Matched(pos, <<>>, mark_failure(state, pos, "[ \\t\\r\\nv]"))

----------------------------------------------------------------------------
(* SgfNode.                                                                *)

\* HashMap::new()
HashMap_new == [k \in {} |-> <<>>]

contains_key(h, k) == k \in DOMAIN h

insert(h, k, v) == [x \in DOMAIN h \cup {k} |-> IF x = k THEN v ELSE h[x]]

SgfNode_new(properties) == [properties |-> properties, children |-> <<>>]

\* A variant of leaf_append that appends gs to the root's children.
leaf_append_at_root(node, gs) == [node EXCEPT !.children = @ \o gs]

\* SgfNode::leaf_mut followed by l.children.append(&mut gs)
RECURSIVE leaf_append(_, _)
leaf_append(node, gs) ==
    IF Len(node.children) = 0
    THEN [node EXCEPT !.children = @ \o gs]
    ELSE [node EXCEPT !.children[1] = leaf_append(@, gs)]

---------------------------------------------------------------------------------------------------------------------------------------------------
(* Grammar rules.  The generated code threads each result into the next    *)
(* step with  match __seq_res { Matched(__pos, x) => ..., Failed => Failed *)
(* }  and runs each repetition with  match __step_res { Matched(..) =>     *)
(* ..., Failed => break }.                                                 *)

match_seq_res(r, K(_)) == IF r.matched THEN K(r) ELSE Failed(r.state)

match_step_res(r, M(_), F(_)) == IF r.matched THEN M(r) ELSE F(r)

\* A variant of match_str that interprets escapes: it drops the backslashes.
match_str_unescaped(inp, str_start, newpos) ==
    SelectSeq(SubSeq(inp, str_start + 1, newpos), LAMBDA c : c # "\\")

\* & __input [ str_start .. __newpos ]
match_str(inp, str_start, newpos) == SubSeq(inp, str_start + 1, newpos)

RECURSIVE upper_repeat(_, _, _)
upper_repeat(inp, state, pos) ==
    IF Len(inp) > pos /\ inp[pos + 1] \in Upper
    THEN upper_repeat(inp, state, pos + 1)
    ELSE Matched(pos, <<>>, mark_failure(state, pos, "[A-Z]"))

\* A variant of __parse_prop_ident for [A-Z][A-Z]? : at most two letters.
__parse_prop_ident_two(inp, state, pos) ==
    match_step_res(upper_repeat(inp, state, pos),
        LAMBDA r : IF r.pos - pos >= 1
                   THEN Matched(IF r.pos - pos > 2 THEN pos + 2 ELSE r.pos,
                                match_str(inp, pos,
                                          IF r.pos - pos > 2 THEN pos + 2 ELSE r.pos),
                                r.state)
                   ELSE Failed(r.state),
        LAMBDA r : Failed(r.state))

\* [A-Z]+ , and the text it matched
__parse_prop_ident(inp, state, pos) ==
    match_step_res(upper_repeat(inp, state, pos),
        LAMBDA r : IF r.pos - pos >= 1
                   THEN Matched(r.pos, match_str(inp, pos, r.pos), r.state)
                   ELSE Failed(r.state),
        LAMBDA r : Failed(r.state))

\* A variant of value_repeat that knows no pair \] : [^\]]*
RECURSIVE value_repeat_no_pair(_, _, _)
value_repeat_no_pair(inp, state, pos) ==
    IF Len(inp) > pos /\ inp[pos + 1] # "]"
    THEN value_repeat_no_pair(inp, state, pos + 1)
    ELSE Matched(pos, <<>>, mark_failure(state, pos, "[^]]"))

\* ( "\\]" / [^\]] )*
RECURSIVE value_repeat(_, _, _)
value_repeat(inp, state, pos) ==
    match_step_res(slice_eq(inp, state, pos, "\\]"),
        LAMBDA c : value_repeat(inp, c.state, c.pos),
        LAMBDA c : IF Len(inp) > pos /\ inp[pos + 1] # "]"
                   THEN value_repeat(inp, c.state, pos + 1)
                   ELSE Matched(pos, <<>>, mark_failure(c.state, pos, "[^]]")))

__parse_prop_value(inp, state, pos) ==
    match_seq_res(ws_repeat(inp, state, pos), LAMBDA w1 :
    match_seq_res(slice_eq(inp, w1.state, w1.pos, "["), LAMBDA lb :
    match_seq_res(value_repeat(inp, lb.state, lb.pos), LAMBDA body :
    match_seq_res(slice_eq(inp, body.state, body.pos, "]"), LAMBDA rb :
    match_seq_res(ws_repeat(inp, rb.state, rb.pos), LAMBDA w2 :
        Matched(w2.pos, match_str(inp, lb.pos, body.pos), w2.state))))))

\* prop_value+ : the values matched so far are acc
RECURSIVE prop_value_repeat(_, _, _, _)
prop_value_repeat(inp, state, pos, acc) ==
    match_step_res(__parse_prop_value(inp, state, pos),
        LAMBDA step : prop_value_repeat(inp, step.state, step.pos,
                                        Append(acc, step.value)),
        LAMBDA step : IF Len(acc) >= 1 THEN Matched(pos, acc, step.state)
                      ELSE Failed(step.state))

__parse_property(inp, state, pos) ==
    match_seq_res(ws_repeat(inp, state, pos), LAMBDA w1 :
    match_seq_res(__parse_prop_ident(inp, w1.state, w1.pos), LAMBDA i :
    match_seq_res(prop_value_repeat(inp, i.state, i.pos, <<>>), LAMBDA vs :
    match_seq_res(ws_repeat(inp, vs.state, vs.pos), LAMBDA w2 :
        Matched(w2.pos, <<i.value, vs.value>>, w2.state)))))

\* property*
RECURSIVE property_repeat(_, _, _, _)
property_repeat(inp, state, pos, acc) ==
    match_step_res(__parse_property(inp, state, pos),
        LAMBDA step : property_repeat(inp, step.state, step.pos,
                                      Append(acc, step.value)),
        LAMBDA step : Matched(pos, acc, step.state))

\* A variant of node_of_props without the contains_key test: a later
\* property overwrites an earlier one.
RECURSIVE node_of_props_overwrite(_, _)
node_of_props_overwrite(props, h) ==
    IF props = <<>> THEN [ok |-> TRUE, node |-> SgfNode_new(h)]
    ELSE node_of_props_overwrite(Tail(props),
                                 insert(h, Head(props)[1], Head(props)[2]))

\* The node rule's action: for e in props { ... }, h the map built so far.
\* Err is [ok |-> FALSE], Ok(node) is [ok |-> TRUE, node |-> node].
RECURSIVE node_of_props(_, _)
node_of_props(props, h) ==
    IF props = <<>> THEN [ok |-> TRUE, node |-> SgfNode_new(h)]
    ELSE IF contains_key(h, Head(props)[1]) THEN [ok |-> FALSE]
         ELSE node_of_props(Tail(props), insert(h, Head(props)[1], Head(props)[2]))

\* match { ... } { Ok(res) => Matched(__pos, res),
\*                 Err(expected) => { mark_failure(__pos, expected); Failed } }
match_node(res, pos, state) ==
    IF res.ok THEN Matched(pos, res.node, state)
    ELSE Failed(mark_failure(state, pos, "duplicated properties"))

\* A variant of __parse_node that records the duplicate at the offset the
\* node starts at.
__parse_node_marks_start(inp, state, pos) ==
    match_seq_res(ws_repeat(inp, state, pos), LAMBDA w1 :
    match_seq_res(slice_eq(inp, w1.state, w1.pos, ";"), LAMBDA semi :
    match_seq_res(property_repeat(inp, semi.state, semi.pos, <<>>), LAMBDA props :
    match_seq_res(ws_repeat(inp, props.state, props.pos), LAMBDA w2 :
        match_node(node_of_props(props.value, HashMap_new),
                   IF node_of_props(props.value, HashMap_new).ok
                   THEN w2.pos ELSE pos,
                   w2.state)))))

__parse_node(inp, state, pos) ==
    match_seq_res(ws_repeat(inp, state, pos), LAMBDA w1 :
    match_seq_res(slice_eq(inp, w1.state, w1.pos, ";"), LAMBDA semi :
    match_seq_res(property_repeat(inp, semi.state, semi.pos, <<>>), LAMBDA props :
    match_seq_res(ws_repeat(inp, props.state, props.pos), LAMBDA w2 :
        match_node(node_of_props(props.value, HashMap_new), w2.pos, w2.state)))))

\* node+
RECURSIVE node_repeat(_, _, _, _)
node_repeat(inp, state, pos, acc) ==
    match_step_res(__parse_node(inp, state, pos),
        LAMBDA step : node_repeat(inp, step.state, step.pos,
                                  Append(acc, step.value)),
        LAMBDA step : IF Len(acc) >= 1 THEN Matched(pos, acc, step.state)
                      ELSE Failed(step.state))

Reverse(s) == [i \in 1..Len(s) |-> s[Len(s) + 1 - i]]

\* for mut n in i { n.children.push(l); l = n; }
RECURSIVE chain_fold(_, _)
chain_fold(l, rest) ==
    IF rest = <<>> THEN l
    ELSE chain_fold([Head(rest) EXCEPT !.children = Append(@, l)], Tail(rest))

\* A variant of chain_of without ns.reverse().
chain_of_unreversed(ns) == chain_fold(Head(ns), Tail(ns))

\* The sequence rule's action: ns.reverse(), l = i.next().unwrap(), the fold.
chain_of(ns) == chain_fold(Head(Reverse(ns)), Tail(Reverse(ns)))

__parse_sequence(inp, state, pos) ==
    match_seq_res(ws_repeat(inp, state, pos), LAMBDA w1 :
    match_seq_res(node_repeat(inp, w1.state, w1.pos, <<>>), LAMBDA ns :
    match_seq_res(ws_repeat(inp, ns.state, ns.pos), LAMBDA w2 :
        Matched(w2.pos, chain_of(ns.value), w2.state))))

\* The game tree rule's action: the nested trees gs go under the leaf of s.
attach(s, gs) == leaf_append(s, gs)

RECURSIVE __parse_game_tree(_, _, _)
RECURSIVE game_tree_repeat(_, _, _, _)

\* game_tree* , the trees matched so far are acc
game_tree_repeat(inp, state, pos, acc) ==
    match_step_res(__parse_game_tree(inp, state, pos),
        LAMBDA step : game_tree_repeat(inp, step.state, step.pos,
                                       Append(acc, step.value)),
        LAMBDA step : Matched(pos, acc, step.state))

__parse_game_tree(inp, state, pos) ==
    match_seq_res(ws_repeat(inp, state, pos), LAMBDA w1 :
    match_seq_res(slice_eq(inp, w1.state, w1.pos, "("), LAMBDA lp :
    match_seq_res(__parse_sequence(inp, lp.state, lp.pos), LAMBDA s :
    match_seq_res(game_tree_repeat(inp, s.state, s.pos, <<>>), LAMBDA gs :
    match_seq_res(slice_eq(inp, gs.state, gs.pos, ")"), LAMBDA rp :
    match_seq_res(ws_repeat(inp, rp.state, rp.pos), LAMBDA w2 :
        Matched(w2.pos, attach(s.value, gs.value), w2.state)))))))

\* A variant of __parse_collection with game_tree* in place of game_tree+.
__parse_collection_star(inp, state, pos) ==
    match_step_res(game_tree_repeat(inp, state, pos, <<>>),
        LAMBDA gs : Matched(gs.pos, gs.value, gs.state),
        LAMBDA gs : Failed(gs.state))

\* SgfCollection::new(gs)
SgfCollection_new(gs) == gs

\* game_tree+
__parse_collection(inp, state, pos) ==
    match_step_res(game_tree_repeat(inp, state, pos, <<>>),
        LAMBDA gs : IF Len(gs.value) >= 1
                    THEN Matched(gs.pos, SgfCollection_new(gs.value), gs.state)
                    ELSE Failed(gs.state),
        LAMBDA gs : Failed(gs.state))

\* Err(ParseError { line, column, offset, expected })
ParseError(inp, state) ==
    [ok |-> FALSE,
     line |-> pos_to_line(inp, state.max_err_pos)[1],
     column |-> pos_to_line(inp, state.max_err_pos)[2],
     offset |-> state.max_err_pos, expected |-> state.expected]

\* A variant of collection without the test __pos == __input.len().
collection_any_prefix(inp) ==
    match_step_res(__parse_collection(inp, ParseState_new, 0),
        LAMBDA r : [ok |-> TRUE, value |-> r.value],
        LAMBDA r : ParseError(inp, r.state))

\* Ok(value) is [ok |-> TRUE, value |-> value].
collection(inp) ==
    match_step_res(__parse_collection(inp, ParseState_new, 0),
        LAMBDA r : IF r.pos = Len(inp) THEN [ok |-> TRUE, value |-> r.value]
                   ELSE ParseError(inp, r.state),
        LAMBDA r : ParseError(inp, r.state))

\* SgfCollection::from_sgf
from_sgf(sgf_str) == collection(sgf_str)

\* The calls of mark_failure made by collection(inp), in order.
mark_failure_calls(inp) == __parse_collection(inp, ParseState_new, 0).state.calls

-----
(* The writer: impl fmt::Display for SgfNode and for SgfCollection.        *)

RECURSIVE Flatten(_)
Flatten(ss) == IF ss = <<>> THEN <<>> ELSE Head(ss) \o Flatten(Tail(ss))

\* The orders in which properties.iter() may yield the keys of a HashMap:
\* the iteration order of a HashMap is unspecified.
iter_orders(h) ==
    LET n == Cardinality(DOMAIN h)
    IN  {o \in [1..n -> DOMAIN h] : \A i, j \in 1..n : i # j => o[i] # o[j]}

\* for v in value { write!(f, "[{}]", v) }
fmt_values(vs) == Flatten([i \in 1..Len(vs) |-> <<"[">> \o vs[i] \o <<"]">>])

\* for (key, value) in self.properties.iter() { ... }, visited in order o
fmt_properties(h, o) ==
    Flatten([i \in 1..Len(o) |-> o[i] \o fmt_values(h[o[i]])])

RECURSIVE SgfNode_fmt(_)
RECURSIVE fmt_parenthesized(_)

\* for child in children { write!(f, "({})", child) }: the possible outputs
fmt_parenthesized(cs) ==
    IF cs = <<>> THEN {<<>>}
    ELSE {<<"(">> \o a \o <<")">> \o b :
              a \in SgfNode_fmt(Head(cs)), b \in fmt_parenthesized(Tail(cs))}

\* A variant of SgfNode_fmt that parenthesizes an only child too.
SgfNode_fmt_parenthesized(node) ==
    {h \o t : h \in {<<";">> \o fmt_properties(node.properties, o) :
                         o \in iter_orders(node.properties)},
              t \in fmt_parenthesized(node.children)}

\* The strings Display may write for a node (one per iteration order).
SgfNode_fmt(node) ==
    LET heads == {<<";">> \o fmt_properties(node.properties, o) :
                      o \in iter_orders(node.properties)}
        tails == IF Len(node.children) = 1
                 THEN SgfNode_fmt(node.children[1])
                 ELSE fmt_parenthesized(node.children)
    IN  {h \o t : h \in heads, t \in tails}

SgfCollection_fmt(c) == fmt_parenthesized(c)

----------------------------------------------------------------------------
(* The text codec.                                                         *)

\* Regex \\(\r\n|\n\r|\n|\r) at the head of s: the length of its match, 0 if
\* none.  The alternatives are tried in the order written.
soft_break_len(s) ==
    IF Len(s) >= 2 /\ s[1] = "\\"
    THEN IF Len(s) >= 3 /\ s[2] = "\r" /\ s[3] = "\n" THEN 3
         ELSE IF Len(s) >= 3 /\ s[2] = "\n" /\ s[3] = "\r" THEN 3
         ELSE IF s[2] = "\n" THEN 2
         ELSE IF s[2] = "\r" THEN 2
         ELSE 0
    ELSE 0

\* replace_all(s, ""): the matches are found left to right, none overlapping
RECURSIVE remove_soft_breaks(_)
remove_soft_breaks(s) ==
    IF s = <<>> THEN <<>>
    ELSE LET l == soft_break_len(s)
         IN  IF l > 0 THEN remove_soft_breaks(SubSeq(s, l + 1, Len(s)))
             ELSE <<Head(s)>> \o remove_soft_breaks(Tail(s))

\* Regex . : any character except \n
dot(c) == c # "\n"

\* Regex \\(.) replaced by "$1"
RECURSIVE unescape(_)
unescape(s) ==
    IF s = <<>> THEN <<>>
    ELSE IF Len(s) >= 2 /\ s[1] = "\\" /\ dot(s[2])
         THEN <<s[2]>> \o unescape(SubSeq(s, 3, Len(s)))
         ELSE <<Head(s)>> \o unescape(Tail(s))

decode_text(s) == unescape(remove_soft_breaks(s))

\* A variant of hard_break_len that knows no two-character line break.
hard_break_len_single(s) ==
    IF s # <<>> /\ s[1] \in {"\n", "\r"} THEN 1 ELSE 0

\* Regex \r\n|\n\r|\n|\r at the head of s: the length of its match, 0 if
\* none.  The alternatives are tried in the order written.
hard_break_len(s) ==
    IF Len(s) >= 2 /\ s[1] = "\r" /\ s[2] = "\n" THEN 2
    ELSE IF Len(s) >= 2 /\ s[1] = "\n" /\ s[2] = "\r" THEN 2
    ELSE IF s # <<>> /\ s[1] = "\n" THEN 1
    ELSE IF s # <<>> /\ s[1] = "\r" THEN 1
    ELSE 0

\* replace_all(s, " "): the matches are found left to right, none overlapping
RECURSIVE replace_hard_breaks(_)
replace_hard_breaks(s) ==
    IF s = <<>> THEN <<>>
    ELSE LET l == hard_break_len(s)
         IN  IF l > 0
             THEN <<" ">> \o replace_hard_breaks(SubSeq(s, l + 1, Len(s)))
             ELSE <<Head(s)>> \o replace_hard_breaks(Tail(s))

decode_simple_text(s) == replace_hard_breaks(decode_text(s))

\* A variant of escaped_class that leaves the colon alone.
escaped_class_no_colon == {"]", "\\"}

\* Regex class [\]\\:]
escaped_class == {"]", "\\", ":"}

\* Regex ([\]\\:]) replaced by "\\$1"
RECURSIVE encode_text(_)
encode_text(s) ==
    IF s = <<>> THEN <<>>
    ELSE IF Head(s) \in escaped_class
         THEN <<"\\", Head(s)>> \o encode_text(Tail(s))
         ELSE <<Head(s)>> \o encode_text(Tail(s))

----------------------------------------------------------------------------
(* The accessors of SgfNode.  A getter returns Ok(value), Err(error) or    *)
(* panics: [ok |-> TRUE, value |-> value], [ok |-> FALSE, value |->        *)
(* error], Panic.                                                          *)

Ok(value) == [ok |-> TRUE, value |-> value]

Err(error) == [ok |-> FALSE, value |-> error]

\* v[0] on an empty Vec: index out of bounds
Panic == [ok |-> FALSE, value |-> "panic"]

remove(h, k) == [x \in DOMAIN h \ {k} |-> h[x]]

get_property(node, id) ==
    IF contains_key(node.properties, id) THEN Ok(node.properties[id])
    ELSE Err("NoProperties")

set_property(node, id, value) ==
    [node EXCEPT !.properties = insert(remove(@, id), id, value)]

get_point(node, id) ==
    IF ~get_property(node, id).ok THEN get_property(node, id)
    ELSE IF get_property(node, id).value = <<>> THEN Panic
    ELSE Ok(get_property(node, id).value[1])

set_point(node, id, value) == set_property(node, id, <<value>>)

\* i32::to_string
Digit(d) == <<"0", "1", "2", "3", "4", "5", "6", "7", "8", "9">>[d + 1]

RECURSIVE Digits(_)
Digits(n) ==
    IF n < 10 THEN <<Digit(n)>> ELSE Append(Digits(n \div 10), Digit(n % 10))

to_string(n) == IF n < 0 THEN <<"-">> \o Digits(-n) ELSE Digits(n)

set_number(node, id, value) == set_property(node, id, <<to_string(value)>>)

set_points(node, id, value) == set_property(node, id, value)

get_text(node, id) ==
    IF ~get_property(node, id).ok THEN get_property(node, id)
    ELSE IF get_property(node, id).value = <<>> THEN Panic
    ELSE Ok(decode_text(get_property(node, id).value[1]))

set_text(node, id, value) == set_property(node, id, <<encode_text(value)>>)

----------------------------------------------------------------------------
(* Inputs.                                                                 *)

\* The pieces the inputs of the parser are made of.
Pieces ==
    { <<"(", ";">>, <<";">>, <<")">>, <<"(", ";", ")">>,
      <<"A", "[", "x", "]">>, <<"B", "[", "\\", "]", "]">>,
      <<"A">>, <<"[", "v", "]">>, <<" ", "v">> }

MaxPieces == 4

RECURSIVE Concats(_)
Concats(n) ==
    IF n = 0 THEN {<<>>}
    ELSE LET shorter == Concats(n - 1)
         IN  shorter \cup {s \o t : s \in shorter, t \in Pieces}

\* sgf_parse("(;CA[UTF-8]FF[4])")  (test_parse1, test_from_sgf1)
test_parse1_input ==
    <<"(", ";", "C", "A", "[", "U", "T", "F", "-", "8", "]", "F", "F", "[",
      "4", "]", ")">>

\* sgf_parse("(;CA[UTF-8]FFF[4])")  (test_parse_fail)
test_parse_fail_input ==
    <<"(", ";", "C", "A", "[", "U", "T", "F", "-", "8", "]", "F", "F", "F",
      "[", "4", "]", ")">>

\* from_sgf("(;CA[UTF-8]LONGNAME[])")  (test_from_sgf_long_propid)
test_from_sgf_long_propid_input ==
    <<"(", ";", "C", "A", "[", "U", "T", "F", "-", "8", "]", "L", "O", "N",
      "G", "N", "A", "M", "E", "[", "]", ")">>

\* from_sgf("(;FF[4]GC[game1])(;FF[4]GC[game2])")  (test_index)
test_index_input ==
    <<"(", ";", "F", "F", "[", "4", "]", "G", "C", "[", "g", "a", "m", "e",
      "1", "]", ")", "(", ";", "F", "F", "[", "4", "]", "G", "C", "[", "g",
      "a", "m", "e", "2", "]", ")">>

\* the input of test_fmt and test_write_sgf
test_fmt_input ==
    <<"(", ";", "F", "F", "[", "4", "]", ";", "C", "[", "a", "]", ";", "C",
      "[", "b", "]", "(", ";", "C", "[", "c", "]", ")", "(", ";", "C", "[",
      "d", "]", ";", "C", "[", "e", "]", ")", "(", ";", "C", "[", "f", "]",
      "(", ";", "C", "[", "g", "]", ";", "C", "[", "h", "]", ";", "C", "[",
      "i", "]", ")", "(", ";", "C", "[", "j", "]", ")", ")", ")">>

\* from_sgf("(;CA[UTF-8]FF[4]N[simple\\\ntext\nsimple])")  (test_get_simple_text)
test_get_simple_text_input ==
    <<"(", ";", "C", "A", "[", "U", "T", "F", "-", "8", "]", "F", "F", "[",
      "4", "]", "N", "[", "s", "i", "m", "p", "l", "e", "\\", "\n", "t",
      "e", "x", "t", "\n", "s", "i", "m", "p", "l", "e", "]", ")">>

\* from_sgf("(;CA[UTF-8]FF[4]AP[mimiaka:1.0])")  (test_set_text)
test_set_text_input ==
    <<"(", ";", "C", "A", "[", "U", "T", "F", "-", "8", "]", "F", "F", "[",
      "4", "]", "A", "P", "[", "m", "i", "m", "i", "a", "k", "a", ":", "1",
      ".", "0", "]", ")">>

\* The inputs of the tests of the source.
Examples ==
    {test_parse1_input,
     test_set_text_input,
     test_parse_fail_input,
     test_from_sgf_long_propid_input,
     test_index_input,
     test_fmt_input,
     test_get_simple_text_input}

\* Every concatenation of at most MaxPieces pieces, and the examples.
Inputs == Concats(MaxPieces) \cup Examples

\* The characters the texts handed to the codec are made of.
TextChars == {"\\", "\n", "\r", "a", "]", ":"}

MaxTextLen == 4

Texts == UNION {[1..n -> TextChars] : n \in 0..MaxTextLen}

\* The arguments of the setters: the identifier of test_set_text, a point,
\* vectors of points (an empty one too), numbers, and the texts of at most
\* MaxSetTextLen characters.
SetIds == {<<"G", "C">>}

SetPoint_values == {<<"a", "b">>}

SetPoints_values == {<<>>, <<<<"a", "b">>, <<"c", "d">>>>}

SetNumber_values == {-1, 12}

SetTextChars == {"\\", "]", "\n", "a"}

MaxSetTextLen == 2

SetText_values == UNION {[1..n -> SetTextChars] : n \in 0..MaxSetTextLen}

----------------------------------------------------------------------------
(* The state machine.                                                      *)

NoResult == [ok |-> FALSE, line |-> 0, column |-> 0, offset |-> 0, expected |-> {}]

\* No setter has been called.
NoCall == [op |-> "", id |-> <<>>, value |-> <<>>]

Init ==
    /\ input \in Inputs
    /\ pc = "start"
    /\ result = NoResult
    /\ output = <<>>
    /\ text = <<>>
    /\ decoded = <<>>
    /\ call = NoCall
    /\ reparsed = NoResult

\* SgfCollection::from_sgf(input)
Parse ==
    /\ pc = "start"
    /\ result' = from_sgf(input)
    /\ pc' = "parsed"
    /\ UNCHANGED <<input, output, text, decoded, call, reparsed>>

\* format!("{}", collection)
Write ==
    /\ pc \in {"parsed", "set"}
    /\ result.ok
    /\ output' \in SgfCollection_fmt(result.value)
    /\ pc' = "written"
    /\ UNCHANGED <<input, result, text, decoded, call, reparsed>>

Next == Parse \/ Write

Spec == Init /\ [][Next]_vars

\* The codec alone, on every text up to MaxTextLen characters.
InitText ==
    /\ text \in Texts
    /\ pc = "start"
    /\ input = <<>>
    /\ result = NoResult
    /\ output = <<>>
    /\ decoded = <<>>
    /\ call = NoCall
    /\ reparsed = NoResult

DecodeText ==
    /\ pc = "start"
    /\ decoded' = decode_text(text)
    /\ pc' = "decoded"
    /\ UNCHANGED <<input, result, output, text, call, reparsed>>

DecodeSimpleText ==
    /\ pc = "start"
    /\ decoded' = decode_simple_text(text)
    /\ pc' = "simple_decoded"
    /\ UNCHANGED <<input, result, output, text, call, reparsed>>

EncodeText ==
    /\ pc = "start"
    /\ decoded' = encode_text(text)
    /\ pc' = "encoded"
    /\ UNCHANGED <<input, result, output, text, call, reparsed>>

NextText == DecodeText \/ DecodeSimpleText \/ EncodeText

SpecText == InitText /\ [][NextText]_vars

\* The accessors on the first root of a parsed collection, as the tests of
\* the source call them:  let node = &mut from_sgf(..).unwrap()[0];  any
\* number of setter calls, then Display and from_sgf again.
InitSet ==
    /\ input \in Examples
    /\ pc = "start"
    /\ result = NoResult
    /\ output = <<>>
    /\ text = <<>>
    /\ decoded = <<>>
    /\ call = NoCall
    /\ reparsed = NoResult

\* node.set_point(id, value)
SetPoint ==
    /\ pc \in {"parsed", "set"}
    /\ result.ok
    /\ \E id \in SetIds, value \in SetPoint_values :
           /\ result' = [result EXCEPT !.value[1] = set_point(@, id, value)]
           /\ call' = [op |-> "set_point", id |-> id, value |-> value]
    /\ pc' = "set"
    /\ UNCHANGED <<input, output, text, decoded, reparsed>>

\* node.set_points(id, value)
SetPoints ==
    /\ pc \in {"parsed", "set"}
    /\ result.ok
    /\ \E id \in SetIds, value \in SetPoints_values :
           /\ result' = [result EXCEPT !.value[1] = set_points(@, id, value)]
           /\ call' = [op |-> "set_points", id |-> id, value |-> value]
    /\ pc' = "set"
    /\ UNCHANGED <<input, output, text, decoded, reparsed>>

\* node.set_number(id, value)
SetNumber ==
    /\ pc \in {"parsed", "set"}
    /\ result.ok
    /\ \E id \in SetIds, value \in SetNumber_values :
           /\ result' = [result EXCEPT !.value[1] = set_number(@, id, value)]
           /\ call' = [op |-> "set_number", id |-> id, value |-> value]
    /\ pc' = "set"
    /\ UNCHANGED <<input, output, text, decoded, reparsed>>

\* node.set_text(id, value)
SetText ==
    /\ pc \in {"parsed", "set"}
    /\ result.ok
    /\ \E id \in SetIds, value \in SetText_values :
           /\ result' = [result EXCEPT !.value[1] = set_text(@, id, value)]
           /\ call' = [op |-> "set_text", id |-> id, value |-> value]
    /\ pc' = "set"
    /\ UNCHANGED <<input, output, text, decoded, reparsed>>

\* SgfCollection::from_sgf(&output)
Reparse ==
    /\ pc = "written"
    /\ reparsed' = from_sgf(output)
    /\ pc' = "reparsed"
    /\ UNCHANGED <<input, result, output, text, decoded, call>>

NextSet ==
    Parse \/ SetPoint \/ SetPoints \/ SetNumber \/ SetText \/ Write \/ Reparse

SpecSet == InitSet /\ [][NextSet]_vars

----------------------------------------------------------------------------
(* The text of an input, read independently of the parser: its tokens.     *)
(* Whitespace-class characters between tokens are skipped; a value runs    *)
(* from its '[' to the first ']' that is not the second character of a     *)
(* pair \] ; an identifier is a maximal run of uppercase letters.          *)

\* The offset of the ']' ending the value whose text starts at offset p,
\* or -1 when there is none.
RECURSIVE ValueEnd(_, _)
ValueEnd(inp, p) ==
    IF p >= Len(inp) THEN -1
    ELSE IF inp[p + 1] = "\\" /\ p + 1 < Len(inp) /\ inp[p + 2] = "]"
         THEN ValueEnd(inp, p + 2)
         ELSE IF inp[p + 1] = "]" THEN p ELSE ValueEnd(inp, p + 1)

RECURSIVE UpperEnd(_, _)
UpperEnd(inp, p) ==
    IF p < Len(inp) /\ inp[p + 1] \in Upper THEN UpperEnd(inp, p + 1) ELSE p

Token(kind, txt, at) == [kind |-> kind, text |-> txt, at |-> at]

RECURSIVE Lex(_, _)
Lex(inp, p) ==
    IF p >= Len(inp) THEN <<>>
    ELSE IF inp[p + 1] \in WsClass THEN Lex(inp, p + 1)
    ELSE IF inp[p + 1] \in {"(", ")", ";"}
         THEN <<Token(inp[p + 1], <<>>, p)>> \o Lex(inp, p + 1)
    ELSE IF inp[p + 1] \in Upper
         THEN <<Token("id", SubSeq(inp, p + 1, UpperEnd(inp, p)), p)>>
              \o Lex(inp, UpperEnd(inp, p))
    ELSE IF inp[p + 1] = "[" /\ ValueEnd(inp, p + 1) >= 0
         THEN <<Token("val", SubSeq(inp, p + 2, ValueEnd(inp, p + 1)), p)>>
              \o Lex(inp, ValueEnd(inp, p + 1) + 1)
    ELSE <<Token("junk", <<inp[p + 1]>>, p)>> \o Lex(inp, p + 1)

Tokens(inp) == Lex(inp, 0)

Structural(t) == t.kind \in {"(", ")", ";"}

\* The index of the first structural token after index i (Len + 1 if none).
RECURSIVE NextStructural(_, _)
NextStructural(toks, i) ==
    IF i + 1 > Len(toks) THEN Len(toks) + 1
    ELSE IF Structural(toks[i + 1]) THEN i + 1
    ELSE NextStructural(toks, i + 1)

\* Two properties of one node have the same identifier.
HasDuplicate(toks) ==
    \E a, b \in 1..Len(toks) :
        /\ a < b
        /\ toks[a].kind = "id" /\ toks[b].kind = "id"
        /\ toks[a].text = toks[b].text
        /\ \A c \in a..b : ~Structural(toks[c])

\* The indices of the ';' tokens, in textual order: node q is SemiAt(toks)[q].
SemiAt(toks) == SelectSeq([i \in 1..Len(toks) |-> i], LAMBDA i : toks[i].kind = ";")

\* The number of ';' tokens among the first i tokens.
NodesBefore(toks, i) == Cardinality({j \in 1..i : toks[j].kind = ";"})

\* The values that follow the identifier at index a, in textual order.
RECURSIVE ValuesAfter(_, _)
ValuesAfter(toks, a) ==
    IF a + 1 <= Len(toks) /\ toks[a + 1].kind = "val"
    THEN <<toks[a + 1].text>> \o ValuesAfter(toks, a + 1)
    ELSE <<>>

\* The indices of the identifiers of the node whose ';' is at index i.
IdsOf(toks, i) ==
    {a \in (i + 1)..(NextStructural(toks, i) - 1) : toks[a].kind = "id"}

\* The numbers of the nodes that open the game trees starting at index j
\* ('(' tokens at nesting depth d = 0, up to the ')' closing the enclosing
\* tree or the end of the text).
RECURSIVE TreesFrom(_, _, _)
TreesFrom(toks, j, d) ==
    IF j > Len(toks) THEN <<>>
    ELSE IF toks[j].kind = "("
         THEN (IF d = 0 THEN <<NodesBefore(toks, j) + 1>> ELSE <<>>)
              \o TreesFrom(toks, j + 1, d + 1)
    ELSE IF toks[j].kind = ")"
         THEN IF d = 0 THEN <<>> ELSE TreesFrom(toks, j + 1, d - 1)
    ELSE TreesFrom(toks, j + 1, d)

\* The children the text gives node q: the next node of its sequence, or
\* the roots of the game trees nested after the last node of a sequence.
TextChildren(toks, q) ==
    LET n == NextStructural(toks, SemiAt(toks)[q])
    IN  IF n > Len(toks) THEN <<>>
        ELSE IF toks[n].kind = ";" THEN <<q + 1>>
        ELSE TreesFrom(toks, n, 0)

----------------------------------------------------------------------------
(* A parsed forest as a table: its nodes numbered in preorder from n, each *)
(* with its properties and the numbers of its children.                    *)

RECURSIVE TreeSize(_)
RECURSIVE ForestSize(_)
ForestSize(cs) ==
    IF cs = <<>> THEN 0 ELSE TreeSize(Head(cs)) + ForestSize(Tail(cs))

TreeSize(node) == 1 + ForestSize(node.children)

RootNumbers(cs, n) ==
    [i \in 1..Len(cs) |-> n + ForestSize(SubSeq(cs, 1, i - 1))]

RECURSIVE ForestTable(_, _)
ForestTable(cs, n) ==
    IF cs = <<>> THEN <<>>
    ELSE <<[properties |-> Head(cs).properties,
            kids |-> RootNumbers(Head(cs).children, n + 1)]>>
         \o ForestTable(Head(cs).children, n + 1)
         \o ForestTable(Tail(cs), n + TreeSize(Head(cs)))

----------------------------------------------------------------------------
(* Further readings of the text, used to state the properties.             *)

\* The number of nodes of the sequence that follows the '(' at index j.
RECURSIVE SequenceLength(_, _)
SequenceLength(toks, j) ==
    IF NextStructural(toks, j) <= Len(toks)
       /\ toks[NextStructural(toks, j)].kind = ";"
    THEN 1 + SequenceLength(toks, NextStructural(toks, j))
    ELSE 0

\* The property map the text gives the node whose ';' is at index i.
TextProperties(toks, i) ==
    [t \in {toks[a].text : a \in IdsOf(toks, i)} |->
        ValuesAfter(toks, CHOOSE a \in IdsOf(toks, i) : toks[a].text = t)]

\* A table of k nodes in a straight line: node i's only child is node i + 1.
IsStraightChain(tab, k) ==
    /\ Len(tab) = k
    /\ \A i \in 1..k : tab[i].kids = IF i < k THEN <<i + 1>> ELSE <<>>

\* A whitespace-class character stands between tokens, from offset p on.
RECURSIVE HasWsOutsideValues(_, _)
HasWsOutsideValues(inp, p) ==
    IF p >= Len(inp) THEN FALSE
    ELSE IF inp[p + 1] \in WsClass THEN TRUE
    ELSE IF inp[p + 1] = "[" /\ ValueEnd(inp, p + 1) >= 0
         THEN HasWsOutsideValues(inp, ValueEnd(inp, p + 1) + 1)
    ELSE HasWsOutsideValues(inp, p + 1)

\* No whitespace-class character anywhere in the input.
WhitespaceFree(inp) == \A i \in 1..Len(inp) : inp[i] \notin WsClass

\* Every node of the text has at most one property.
AtMostOneProperty(toks) ==
    \A i \in 1..Len(toks) : toks[i].kind = ";" => Cardinality(IdsOf(toks, i)) <= 1

\* No game tree of the text has exactly one game tree nested in it.
NoOnlyNestedTree(toks) ==
    \A q \in 1..Len(SemiAt(toks)) :
        LET n == NextStructural(toks, SemiAt(toks)[q])
        IN  n <= Len(toks) /\ toks[n].kind = "(" => Len(TextChildren(toks, q)) >= 2

\* The characters of the whitespace class.
WhitespaceChars == {" ", "\t", "\r", "\n", "v"}

\* The first offset from p on that holds no whitespace-class character.
RECURSIVE SkipWs(_, _)
SkipWs(inp, p) ==
    IF p < Len(inp) /\ inp[p + 1] \in WhitespaceChars THEN SkipWs(inp, p + 1)
    ELSE p

\* The offset just after token t.
TokenEnd(inp, t) ==
    IF t.kind = "val" THEN ValueEnd(inp, t.at + 1) + 1
    ELSE IF t.kind = "id" THEN t.at + Len(t.text)
    ELSE t.at + 1

\* Offset p is the end of the properties of a node that repeats an
\* identifier: the last value of a run of properties, and the whitespace
\* after it, end at p, and two identifiers of that run are the same.
EndOfRepeatingProperties(inp, toks, p) ==
    \E j \in 1..Len(toks) :
        /\ toks[j].kind = "val"
        /\ j < Len(toks) => toks[j + 1].kind # "val"
        /\ p = SkipWs(inp, TokenEnd(inp, toks[j]))
        /\ \E a, b \in 1..j :
               /\ a < b
               /\ toks[a].kind = "id" /\ toks[b].kind = "id"
               /\ toks[a].text = toks[b].text
               /\ \A c \in a..j : ~Structural(toks[c])

\* The greatest element of a non-empty set of numbers.
Greatest(S) == CHOOSE m \in S : \A n \in S : n <= m

\* The offsets at which whitespace may be put in: just before a token, and
\* just after a value or a ')'.
InsertionPoints(inp, toks) ==
    {toks[j].at : j \in 1..Len(toks)}
        \cup {TokenEnd(inp, toks[j]) :
                  j \in {k \in 1..Len(toks) : toks[k].kind \in {"val", ")"}}}

Repeat(c, n) == [k \in 1..n |-> c]

\* How many characters a run of whitespace put into an input has.
MaxRun == 2

\* Runs of whitespace-class characters: each character up to MaxRun times,
\* and the five of them in a row.
WsRuns ==
    {Repeat(c, n) : c \in WhitespaceChars, n \in 1..MaxRun}
        \cup {<<" ", "\t", "\r", "\n", "v">>}

\* inp with the characters ins put in at offset p.
InsertAt(inp, p, ins) == SubSeq(inp, 1, p) \o ins \o SubSeq(inp, p + 1, Len(inp))


\* How many letters an identifier is lengthened by.
MaxGrow == 2

\* s with every soft line break deleted: a backslash followed by CRLF, LFCR,
\* LF or CR, scanned left to right.
RECURSIVE SoftBreaksDeleted(_)
SoftBreaksDeleted(s) ==
    IF s = <<>> THEN <<>>
    ELSE IF Len(s) >= 3 /\ s[1] = "\\"
            /\ <<s[2], s[3]>> \in {<<"\r", "\n">>, <<"\n", "\r">>}
         THEN SoftBreaksDeleted(SubSeq(s, 4, Len(s)))
    ELSE IF Len(s) >= 2 /\ s[1] = "\\" /\ s[2] \in {"\n", "\r"}
         THEN SoftBreaksDeleted(SubSeq(s, 3, Len(s)))
    ELSE <<Head(s)>> \o SoftBreaksDeleted(Tail(s))

\* s with every backslash that is followed by a character, whichever it is,
\* replaced by that character, scanned left to right.
RECURSIVE EscapesRemoved(_)
EscapesRemoved(s) ==
    IF s = <<>> THEN <<>>
    ELSE IF Len(s) >= 2 /\ s[1] = "\\"
         THEN <<s[2]>> \o EscapesRemoved(SubSeq(s, 3, Len(s)))
    ELSE <<Head(s)>> \o EscapesRemoved(Tail(s))

\* s with every hard line break replaced by one space: CRLF and LFCR are one
\* break each, a lone LF or CR is one break, scanned left to right.
RECURSIVE HardBreaksReplaced(_)
HardBreaksReplaced(s) ==
    IF s = <<>> THEN <<>>
    ELSE IF Len(s) >= 2 /\ <<s[1], s[2]>> \in {<<"\r", "\n">>, <<"\n", "\r">>}
         THEN <<" ">> \o HardBreaksReplaced(SubSeq(s, 3, Len(s)))
    ELSE IF s[1] \in {"\n", "\r"}
         THEN <<" ">> \o HardBreaksReplaced(Tail(s))
    ELSE <<Head(s)>> \o HardBreaksReplaced(Tail(s))

\* The characters a text is escaped for.
Special == {"]", "\\", ":"}

\* The number of special characters among the first i characters of s.
SpecialUpTo(s, i) == Cardinality({j \in 1..i : s[j] \in Special})

----------------------------------------------------------------------------
(* The grammar as written in the specification, read as a recognizer:      *)
(*   Collection := (Ws GameTree)+                                          *)
(*   GameTree   := Ws "(" Sequence (Ws GameTree)* Ws ")"                   *)
(*   Sequence   := Ws Node+ Ws                                             *)
(*   Node       := Ws ";" Property*     (failing on a repeated identifier) *)
(*   Property   := Ws PropIdent PropValue+ Ws                              *)
(*   PropValue  := Ws "[" ( "\]" | any character except "]" )* "]" Ws      *)
(* Each operator gives the offset at which the rule ends when started at   *)
(* offset p, or -1 when it fails; a repetition takes as many matches as    *)
(* it can and never gives one back.                                        *)

CharAt(inp, p, c) == p >= 0 /\ p < Len(inp) /\ inp[p + 1] = c

\* The end of a rule that continues at offset q with K, -1 when q is -1.
Then(q, K(_)) == IF q < 0 THEN -1 ELSE K(q)

GPropValue(inp, p) ==
    IF CharAt(inp, SkipWs(inp, p), "[")
       /\ ValueEnd(inp, SkipWs(inp, p) + 1) >= 0
    THEN SkipWs(inp, ValueEnd(inp, SkipWs(inp, p) + 1) + 1)
    ELSE -1

\* PropValue*
RECURSIVE GPropValues(_, _)
GPropValues(inp, p) ==
    IF GPropValue(inp, p) < 0 THEN p ELSE GPropValues(inp, GPropValue(inp, p))

\* The identifier a property starting at offset p would have.
GPropIdent(inp, p) ==
    SubSeq(inp, SkipWs(inp, p) + 1, UpperEnd(inp, SkipWs(inp, p)))

GProperty(inp, p) ==
    IF GPropIdent(inp, p) = <<>> THEN -1
    ELSE Then(GPropValue(inp, UpperEnd(inp, SkipWs(inp, p))),
              LAMBDA v : SkipWs(inp, GPropValues(inp, v)))

\* Property* after the identifiers ids of the node: the end, or -1 when
\* an identifier is repeated.
RECURSIVE GProperties(_, _, _)
GProperties(inp, p, ids) ==
    IF GProperty(inp, p) < 0 THEN p
    ELSE IF GPropIdent(inp, p) \in ids THEN -1
    ELSE GProperties(inp, GProperty(inp, p), ids \cup {GPropIdent(inp, p)})

GNode(inp, p) ==
    IF CharAt(inp, SkipWs(inp, p), ";")
    THEN GProperties(inp, SkipWs(inp, p) + 1, {})
    ELSE -1

\* Node*
RECURSIVE GNodes(_, _)
GNodes(inp, p) ==
    IF GNode(inp, p) < 0 THEN p ELSE GNodes(inp, GNode(inp, p))

GSequence(inp, p) ==
    Then(GNode(inp, SkipWs(inp, p)), LAMBDA n : SkipWs(inp, GNodes(inp, n)))

RECURSIVE GGameTree(_, _)
RECURSIVE GGameTrees(_, _)
\* (Ws GameTree)*
GGameTrees(inp, p) ==
    IF GGameTree(inp, SkipWs(inp, p)) < 0 THEN p
    ELSE GGameTrees(inp, GGameTree(inp, SkipWs(inp, p)))

GGameTree(inp, p) ==
    IF CharAt(inp, SkipWs(inp, p), "(")
    THEN Then(GSequence(inp, SkipWs(inp, p) + 1), LAMBDA s :
              IF CharAt(inp, SkipWs(inp, GGameTrees(inp, s)), ")")
              THEN SkipWs(inp, GGameTrees(inp, s)) + 1
              ELSE -1)
    ELSE -1

\* (Ws GameTree)+
GCollection(inp) ==
    Then(GGameTree(inp, SkipWs(inp, 0)), LAMBDA g : GGameTrees(inp, g))

\* inp is in the language: the collection rule ends at the end of inp.
InLanguage(inp) == GCollection(inp) = Len(inp)

\* The length of inp without the whitespace-class characters that end it.
RECURSIVE TrimmedLen(_)
TrimmedLen(inp) ==
    IF inp # <<>> /\ inp[Len(inp)] \in WhitespaceChars
    THEN TrimmedLen(SubSeq(inp, 1, Len(inp) - 1))
    ELSE Len(inp)

----------------------------------------------------------------------------
(* Properties.                                                             *)

\* C1: from_sgf returns Ok exactly when the collection rule, started at
\* offset 0, matches and ends at the byte length of the input; then the
\* value is the rule's; in every other case it returns a ParseError, which
\* holds no tree.
C1_OkIffWholeInputMatched ==
    pc = "parsed" =>
        LET r == __parse_collection(input, ParseState_new, 0)
        IN  /\ result.ok <=> (r.matched /\ r.pos = Len(input))
            /\ result.ok => result.value = r.value
            /\ ~result.ok =>
                   DOMAIN result = {"ok", "line", "column", "offset", "expected"}

\* A prefix of game trees matched and input is left over: an error.
C1_Witness ==
    /\ pc = "parsed"
    /\ __parse_collection(input, ParseState_new, 0).matched
    /\ __parse_collection(input, ParseState_new, 0).pos < Len(input)
    /\ ~result.ok

\* C2: an input in which some node has two properties with the same
\* identifier is an error; so every node of a parsed tree binds as many
\* identifiers as its text has properties, none of them overwritten.
C2_DuplicateIdentifierIsError ==
    pc = "parsed" =>
        LET toks == Tokens(input)
        IN  /\ HasDuplicate(toks) => ~result.ok
            /\ result.ok =>
                   LET tab == ForestTable(result.value, 1)
                   IN  /\ Len(tab) = Len(SemiAt(toks))
                       /\ \A q \in 1..Len(tab) :
                              Cardinality(DOMAIN tab[q].properties)
                                  = Cardinality(IdsOf(toks, SemiAt(toks)[q]))

\* A node with a repeated identifier was parsed, and the node rule said so.
C2_Witness ==
    /\ pc = "parsed"
    /\ HasDuplicate(Tokens(input))
    /\ Tokens(input)[1].kind = "("
    /\ Tokens(input)[Len(Tokens(input))].kind = ")"
    /\ ~result.ok
    /\ "duplicated properties" \in result.expected

\* C3: the sequence rule returns its k >= 1 nodes as a straight chain in
\* textual order: n1 is the root, each ni with i < k has the one child
\* n(i+1), and nk has no child.  Wherever the rule matches, its value is a
\* straight chain.
C3_SequenceIsStraightChain ==
    pc = "parsed" =>
        /\ \A p \in 0..Len(input) :
               LET r == __parse_sequence(input, ParseState_new, p)
               IN  r.matched =>
                       IsStraightChain(ForestTable(<<r.value>>, 1),
                                       TreeSize(r.value))
        /\ result.ok =>
               LET toks == Tokens(input)
               IN  \A j \in 1..Len(toks) : toks[j].kind = "(" =>
                       LET r == __parse_sequence(input, ParseState_new,
                                                 toks[j].at + 1)
                           k == SequenceLength(toks, j)
                           q0 == NodesBefore(toks, j)
                       IN  /\ r.matched
                           /\ k >= 1
                           /\ IsStraightChain(ForestTable(<<r.value>>, 1), k)
                           /\ \A i \in 1..k :
                                  ForestTable(<<r.value>>, 1)[i].properties
                                      = TextProperties(toks, SemiAt(toks)[q0 + i])

\* A sequence of two or more nodes, the first two with different properties.
C3_Witness ==
    /\ pc = "parsed"
    /\ result.ok
    /\ \E j \in 1..Len(Tokens(input)) :
           /\ Tokens(input)[j].kind = "("
           /\ SequenceLength(Tokens(input), j) >= 2
           /\ TextProperties(Tokens(input), j + 1)
                  # TextProperties(Tokens(input),
                                   NextStructural(Tokens(input), j + 1))

\* C4: in the parsed tree the last node of a sequence has as children
\* exactly the roots of the game trees nested after the sequence, in
\* textual order, and every earlier node of the sequence has exactly one
\* child, the next node.
C4_NestedTreesUnderLastNode ==
    pc = "parsed" /\ result.ok =>
        LET toks == Tokens(input)
            tab == ForestTable(result.value, 1)
        IN  /\ Len(tab) = Len(SemiAt(toks))
            /\ \A q \in 1..Len(tab) : tab[q].kids = TextChildren(toks, q)

\* A sequence of two or more nodes followed by a nested game tree.
C4_Witness ==
    /\ pc = "parsed"
    /\ result.ok
    /\ \E q \in 2..Len(SemiAt(Tokens(input))) :
           LET toks == Tokens(input)
               n == NextStructural(toks, SemiAt(toks)[q])
           IN  /\ NextStructural(toks, SemiAt(toks)[q - 1]) = SemiAt(toks)[q]
               /\ toks[n].kind = "("
               /\ ForestTable(result.value, 1)[q].kids # <<>>

\* C5: every stored value is the substring of the input between its '['
\* and the ']' that ends it, a pair \] inside it kept as two characters;
\* the values of a property are stored in textual order.
C5_ValuesAreRawSubstrings ==
    pc = "parsed" /\ result.ok =>
        LET toks == Tokens(input)
            tab == ForestTable(result.value, 1)
        IN  /\ Len(tab) = Len(SemiAt(toks))
            /\ \A q \in 1..Len(tab) : \A a \in IdsOf(toks, SemiAt(toks)[q]) :
                   /\ toks[a].text \in DOMAIN tab[q].properties
                   /\ LET vs == tab[q].properties[toks[a].text]
                      IN  /\ Len(vs) = Len(ValuesAfter(toks, a))
                          /\ \A n \in 1..Len(vs) :
                                 vs[n] = SubSeq(input, toks[a + n].at + 2,
                                                ValueEnd(input, toks[a + n].at + 1))

\* A property with two values, one of them holding the pair \] .
C5_Witness ==
    /\ pc = "parsed"
    /\ result.ok
    /\ \E q \in 1..Len(result.value) :
           \E k \in DOMAIN result.value[q].properties :
               LET vs == result.value[q].properties[k]
               IN  /\ Len(vs) >= 2
                   /\ \E n \in 1..Len(vs) : \E i \in 1..(Len(vs[n]) - 1) :
                          vs[n][i] = "\\" /\ vs[n][i + 1] = "]"

\* C7: a parsed collection has one root per top-level game tree of the
\* input, in textual order; it is never empty.
C7_OneRootPerTopLevelTree ==
    pc = "parsed" /\ result.ok =>
        LET toks == Tokens(input)
            roots == TreesFrom(toks, 1, 0)
        IN  /\ Len(result.value) >= 1
            /\ RootNumbers(result.value, 1) = roots
            /\ \A i \in 1..Len(roots) :
                   /\ roots[i] <= Len(SemiAt(toks))
                   /\ result.value[i].properties
                          = TextProperties(toks, SemiAt(toks)[roots[i]])

\* A collection of two or more game records.
C7_Witness ==
    /\ pc = "parsed"
    /\ result.ok
    /\ Len(result.value) >= 2
    /\ result.value[1].properties # result.value[2].properties

\* C6 as stated: for every whitespace-free input the parser accepts,
\* Display of the parsed collection writes the input back.
C6_RoundTripEveryInput ==
    pc = "written" /\ WhitespaceFree(input) => output = input

\* C6 as amended: Display writes the input back when the input has no
\* whitespace-class character outside its values, every node has at most
\* one property, and no game tree has exactly one nested game tree.
C6_RoundTrip ==
    (/\ pc = "written"
     /\ ~HasWsOutsideValues(input, 0)
     /\ AtMostOneProperty(Tokens(input))
     /\ NoOnlyNestedTree(Tokens(input)))
        => output = input

\* Such an input with a property, a sequence and nested game trees was
\* written back.
C6_Witness ==
    /\ pc = "written"
    /\ ~HasWsOutsideValues(input, 0)
    /\ AtMostOneProperty(Tokens(input))
    /\ NoOnlyNestedTree(Tokens(input))
    /\ output = input
    /\ \E q \in 1..Len(SemiAt(Tokens(input))) :
           /\ Len(TextChildren(Tokens(input), q)) >= 2
           /\ IdsOf(Tokens(input), SemiAt(Tokens(input))[q]) # {}
    /\ \E j \in 1..Len(Tokens(input)) :
           Tokens(input)[j].kind = "(" /\ SequenceLength(Tokens(input), j) >= 2

C9_TestParseFailIsError ==
    pc = "parsed" /\ input = test_parse_fail_input => ~result.ok

\* C10: decode_text(s) is s with every soft line break deleted and then
\* every remaining backslash that is followed by a character replaced by
\* that character.
C10_DecodeTextIsTwoPasses ==
    pc = "decoded" => decoded = EscapesRemoved(SoftBreaksDeleted(text))

\* C11: decode_simple_text(s) is decode_text(s) with each hard line break
\* (CRLF, LFCR, LF or CR, a two-character break counting once) replaced by
\* exactly one space, so it holds no CR and no LF.
C11_SimpleTextHasNoLineBreak ==
    pc = "simple_decoded" =>
        /\ decoded = HardBreaksReplaced(decode_text(text))
        /\ \A i \in 1..Len(decoded) : decoded[i] \notin {"\r", "\n"}

\* A text whose decoding keeps a two-character break has been decoded.
C11_Witness ==
    /\ pc = "simple_decoded"
    /\ \E i \in 1..(Len(decode_text(text)) - 1) :
           /\ decode_text(text)[i] = "\r"
           /\ decode_text(text)[i + 1] = "\n"
    /\ \E i \in 1..Len(decoded) : decoded[i] = " "

\* C12: encode_text(s) inserts exactly one backslash before each ']', each
\* backslash and each ':' of s and leaves every other character and the
\* order unchanged: its length is that of s plus the number of those
\* characters.
C12_EncodeInsertsOneBackslash ==
    pc = "encoded" =>
        /\ Len(decoded) = Len(text) + SpecialUpTo(text, Len(text))
        /\ \A i \in 1..Len(text) :
               /\ decoded[i + SpecialUpTo(text, i)] = text[i]
               /\ text[i] \in Special =>
                      decoded[i + SpecialUpTo(text, i) - 1] = "\\"

\* A text holding each of the three characters has been encoded.
C12_Witness ==
    /\ pc = "encoded"
    /\ \A c \in Special : \E i \in 1..Len(text) : text[i] = c
    /\ Len(decoded) > Len(text)

\* C14: on failure, ParseError.offset is the greatest position at which a
\* failure was recorded during the whole descent, and expected is exactly
\* the set of the descriptions recorded at that position: failures at
\* smaller positions contribute nothing, and the tracked maximum never
\* decreases.
C14_FurthestFailureWins ==
    pc = "parsed" /\ ~result.ok =>
        LET calls == mark_failure_calls(input)
        IN  /\ calls # <<>>
            /\ result.offset = Greatest({calls[i].pos : i \in 1..Len(calls)})
            /\ result.expected =
                   {calls[i].expected :
                        i \in {k \in 1..Len(calls) : calls[k].pos = result.offset}}
            /\ \A i \in 1..(Len(calls) - 1) :
                   calls[i].max_err_pos <= calls[i + 1].max_err_pos

\* A parse has failed after recording, at a smaller position than the one
\* reported, a description that is not reported.
C14_Witness ==
    /\ pc = "parsed" /\ ~result.ok
    /\ \E i \in 1..Len(mark_failure_calls(input)) :
           /\ mark_failure_calls(input)[i].pos < result.offset
           /\ mark_failure_calls(input)[i].expected \notin result.expected

\* C15 as stated: whenever the node rule finds a repeated identifier, the
\* ParseError holds "duplicated properties" in expected and its offset is
\* the position at which the node rule failed.
C15_DuplicateAlwaysReported ==
    pc = "parsed" =>
        \A i \in 1..Len(mark_failure_calls(input)) :
            mark_failure_calls(input)[i].expected = "duplicated properties" =>
                /\ ~result.ok
                /\ "duplicated properties" \in result.expected
                /\ result.offset = mark_failure_calls(input)[i].pos

\* C15: whenever the node rule finds a repeated identifier, the parse
\* fails and the node rule records "duplicated properties" at the end of
\* that node's properties.  When no failure was recorded before at a
\* greater position, the ParseError has that offset and holds "duplicated
\* properties" in expected; otherwise its offset is greater and expected
\* does not hold it.
C15_DuplicateReportedUnlessOvertaken ==
    pc = "parsed" =>
        LET calls == mark_failure_calls(input)
        IN  \A i \in 1..Len(calls) :
                calls[i].expected = "duplicated properties" =>
                    /\ ~result.ok
                    /\ EndOfRepeatingProperties(input, Tokens(input), calls[i].pos)
                    /\ IF \E j \in 1..(i - 1) : calls[j].pos > calls[i].pos
                       THEN /\ result.offset > calls[i].pos
                            /\ "duplicated properties" \notin result.expected
                       ELSE /\ result.offset = calls[i].pos
                            /\ "duplicated properties" \in result.expected

\* A repeated identifier has been found and is reported.
C15_Witness ==
    /\ pc = "parsed" /\ ~result.ok
    /\ "duplicated properties" \in result.expected
    /\ \E i \in 1..Len(mark_failure_calls(input)) :
           /\ mark_failure_calls(input)[i].expected = "duplicated properties"
           /\ mark_failure_calls(input)[i].pos = result.offset

\* C16 as stated: the inputs sgf_parse accepts are exactly the language of
\* the specification's grammar under greedy, non-backtracking repetition
\* and whole-input consumption, inputs with whitespace after the final ')'
\* included.
C16_AcceptsGrammarLanguage ==
    pc = "parsed" => (result.ok <=> InLanguage(input))

\* C16: the inputs sgf_parse accepts are exactly the strings of the
\* language of the specification's grammar followed by any run of
\* whitespace-class characters.
C16_AcceptsLanguageThenWhitespace ==
    pc = "parsed" =>
        (result.ok <=> InLanguage(SubSeq(input, 1, TrimmedLen(input))))

\* An input that ends with whitespace-class characters after its final
\* ')' has been accepted.
C16_Witness ==
    /\ pc = "parsed" /\ result.ok
    /\ TrimmedLen(input) < Len(input)
    /\ input[TrimmedLen(input)] = ")"

\* C17: putting a run of whitespace-class characters just before a '(',
\* ';', ')', a property identifier or the '[' of a value, or just after the
\* ']' of a value or a ')', of an accepted input gives an input that is
\* accepted too and parses to the same tree.
C17_WhitespaceBetweenTokensIgnored ==
    pc = "parsed" /\ result.ok =>
        \A p \in InsertionPoints(input, Tokens(input)) :
            \A run \in WsRuns :
                from_sgf(InsertAt(input, p, run)) = result

\* An accepted input with every kind of token has been parsed.
C17_Witness ==
    /\ pc = "parsed" /\ result.ok
    /\ \A kind \in {"(", ";", ")", "id", "val"} :
           \E j \in 1..Len(Tokens(input)) : Tokens(input)[j].kind = kind
    /\ Cardinality(InsertionPoints(input, Tokens(input))) >= 6

\* C13: after set_text(id, t) on a node, get_text(id) returns t, for every
\* text t, whether or not id was bound before.
C13_GetTextReturnsSetText ==
    pc = "set" /\ call.op = "set_text" =>
        get_text(result.value[1], call.id) = Ok(call.value)

\* C18: after parsing and any sequence of setter calls, every identifier
\* bound in a node has a non-empty sequence of values, so the single-value
\* getters, which read element 0, are defined.
C18_BoundValuesNonEmpty ==
    pc \in {"parsed", "set"} /\ result.ok =>
        /\ \A i \in 1..Len(ForestTable(result.value, 1)) :
               \A id \in DOMAIN ForestTable(result.value, 1)[i].properties :
                   ForestTable(result.value, 1)[i].properties[id] # <<>>
        /\ \A id \in DOMAIN result.value[1].properties :
               get_point(result.value[1], id) # Panic

\* C19: for every text t, a parsed collection in which set_text(id, t) was
\* called can be written with Display and parsed again successfully, and
\* get_text(id) on the corresponding node of the new tree returns t.
C19_SetTextSurvivesWriteAndParse ==
    pc = "reparsed" /\ call.op = "set_text" =>
        /\ reparsed.ok
        /\ get_text(reparsed.value[1], call.id) = Ok(call.value)

====
